---- MODULE Spec2Model ----
(***************************************************************************)
(* Model of DeepSeek_native.py: the content extractor                      *)
(* (extract_docx_content), the request/retry loop (docx_qa) and the        *)
(* Streamlit script that drives them (main).                               *)
(*                                                                         *)
(* A Python str is a sequence of one-character strings, a list is a        *)
(* sequence, and an optional list is a record [none, items].               *)
(***************************************************************************)
EXTENDS Naturals, Sequences, FiniteSets

\* ------------------------------------------------------------------ bounds

\* Most paragraphs of a document.
MaxParas == 2
\* Most characters of a paragraph.
MaxParaLen == 2
\* Most characters of the sidebar's keyword text area.
MaxInputLen == 2
\* Most docx_qa invocations of a session.
MaxInvocations == 2

\* ----------------------------------------------------------------- strings

NL == "\n"

\* Characters of paragraph texts: one cased letter in both cases, and the
\* line break python-docx puts in a paragraph's text for <w:br/> and <w:cr/>.
ParaChars == {"a", "A", NL}

\* Characters of the keyword text area.
InputChars == {"a", " ", NL}

SeqsUpTo(S, n) == UNION {[1..k -> S] : k \in 0..n}

\* str.lower() of one character.
LowerChar(c) == IF c = "A" THEN "a" ELSE c

\* str.lower()
lower(s) == [i \in 1..Len(s) |-> LowerChar(s[i])]

\* Python's `sub in s` on strings.
StrIn(sub, s) ==
  \E off \in 0..Len(s) :
     /\ off + Len(sub) <= Len(s)
     /\ SubSeq(s, off + 1, off + Len(sub)) = sub

\* A join that drops empty parts: "\n".join(p for p in parts if p).
RECURSIVE join_skip_empty(_)
join_skip_empty(parts) ==
  IF parts = <<>> THEN <<>>
  ELSE IF Head(parts) = <<>> THEN join_skip_empty(Tail(parts))
  ELSE IF join_skip_empty(Tail(parts)) = <<>> THEN Head(parts)
  ELSE Head(parts) \o <<NL>> \o join_skip_empty(Tail(parts))

\* "\n".join(parts)
RECURSIVE join(_)
join(parts) ==
  IF parts = <<>> THEN <<>>
  ELSE IF Len(parts) = 1 THEN parts[1]
  ELSE parts[1] \o <<NL>> \o join(Tail(parts))

\* An optional list of keywords: None, or a list.
None == [none |-> TRUE, items |-> <<>>]
Some(items) == [none |-> FALSE, items |-> items]

\* Python's truth value of `keywords`: None and [] are false.
Truthy(keywords) == ~keywords.none /\ keywords.items /= <<>>

\* The test without para.lower(): any(keyword.lower() in para for ...).
AnyKeywordInCaseSensitive(para, items) ==
  \E k \in 1..Len(items) : StrIn(lower(items[k]), para)

\* any(keyword.lower() in para.lower() for keyword in keywords)
AnyKeywordIn(para, items) ==
  \E k \in 1..Len(items) : StrIn(lower(items[k]), lower(para))

\* [para for para in paragraphs if any(...)]
RECURSIVE filter_paragraphs(_, _)
filter_paragraphs(paragraphs, items) ==
  IF paragraphs = <<>> THEN <<>>
  ELSE (IF AnyKeywordIn(Head(paragraphs), items)
        THEN <<Head(paragraphs)>> ELSE <<>>)
       \o filter_paragraphs(Tail(paragraphs), items)

\* The extractor with `if keywords is not None:` for `if keywords:`.
extract_docx_content_not_none(paragraphs, keywords) ==
  IF ~keywords.none
  THEN join(filter_paragraphs(paragraphs, keywords.items))
  ELSE join(paragraphs)

\* extract_docx_content(doc, keywords); doc is the list of its paragraphs' texts.
extract_docx_content(paragraphs, keywords) ==
  IF Truthy(keywords)
  THEN join(filter_paragraphs(paragraphs, keywords.items))
  ELSE join(paragraphs)

\* [kw.strip() for kw in keywords_input.split('\n') if kw.strip()]  (line 201)

IsSpace(c) == c \in {" ", NL}

RECURSIVE lstrip(_)
lstrip(s) == IF s /= <<>> /\ IsSpace(Head(s)) THEN lstrip(Tail(s)) ELSE s

RECURSIVE rstrip(_)
rstrip(s) ==
  IF s /= <<>> /\ IsSpace(s[Len(s)]) THEN rstrip(SubSeq(s, 1, Len(s) - 1)) ELSE s

\* str.strip()
strip(s) == rstrip(lstrip(s))

\* str.split('\n'): the pieces between line breaks; "" splits to [""].
RECURSIVE split(_)
split(s) ==
  IF \E i \in 1..Len(s) : s[i] = NL
  THEN LET p == CHOOSE i \in 1..Len(s) :
                  s[i] = NL /\ \A j \in 1..(i - 1) : s[j] /= NL
       IN  <<SubSeq(s, 1, p - 1)>> \o split(SubSeq(s, p + 1, Len(s)))
  ELSE <<s>>

RECURSIVE strip_nonblank(_)
strip_nonblank(pieces) ==
  IF pieces = <<>> THEN <<>>
  ELSE (IF strip(Head(pieces)) /= <<>> THEN <<strip(Head(pieces))>> ELSE <<>>)
       \o strip_nonblank(Tail(pieces))

parse_keywords(keywords_text) == strip_nonblank(split(keywords_text))

\* ------------------------------------------------------- docx_qa constants

max_retries == 3
retry_delay == 60

\* The test off by one upwards: `if attempt < max_retries`.
ShouldWaitOffByOne(n) == n < max_retries

\* The test off by one downwards: `if attempt < max_retries - 2`.
ShouldWaitOnce(n) == n < max_retries - 2

\* `if attempt < max_retries - 1`  (line 169)
ShouldWait(n) == n < max_retries - 1

\* A wait that grows with the attempt: time.sleep(retry_delay * (attempt + 1)).
RetryDelayLinear(n) == retry_delay * (n + 1)

\* time.sleep(retry_delay): the wait before the retry that follows attempt n.
RetryDelay(n) == retry_delay

\* The loop one iteration short: `for attempt in range(max_retries - 1)`.
HasNextAttemptShort(n) == n + 1 < max_retries - 1

\* `for attempt in range(max_retries)`: whether the loop has a next iteration.
HasNextAttempt(n) == n + 1 < max_retries

\* ------------------------------------------------------------ remote service

\* Texts of the errors the chain raises, str(e), as Python strings.
Text402 == <<"4", "0", "2">>
TextId14025 == <<"i", "d", "1", "4", "0", "2", "5">>
TextInsufficient ==
  <<"I", "n", "s", "u", "f", "f", "i", "c", "i", "e", "n", "t", " ",
    "B", "a", "l", "a", "n", "c", "e">>
Text429 == <<"4", "2", "9">>
Text500 == <<"5", "0", "0">>
TextTimeout == <<"t", "i", "m", "e", "o", "u", "t">>

MarkerInsufficientBalance == TextInsufficient
Marker402 == Text402

NoError == [cls |-> "none", msg |-> <<>>]

\* openai.RateLimitError instances; one carries a payment marker in its text.
RateLimitErrors ==
  {[cls |-> "RateLimitError", msg |-> Text429],
   [cls |-> "RateLimitError", msg |-> Text402]}

\* Any other Exception the chain raises.
OtherErrors ==
  {[cls |-> "Exception", msg |-> m] :
     m \in {Text402, TextId14025, TextInsufficient, Text500, TextTimeout}}

\* The test with one marker only: `"402" in error_msg`.
IsPaymentErrorOnly402(error_msg) == StrIn(Marker402, error_msg)

\* `"Insufficient Balance" in error_msg or "402" in error_msg`  (line 177)
IsPaymentError(error_msg) ==
  StrIn(MarkerInsufficientBalance, error_msg) \/ StrIn(Marker402, error_msg)

\* Response texts of the chain, and Python's None where no text is.
NoResponse == <<"<None>">>
Responses == {<<"r", "1">>, <<"r", "2">>}

\* --------------------------------------------------------------- UI output

Msg(kind, text, args) == [kind |-> kind, text |-> text, args |-> args]

Digits == <<"0", "1", "2", "3", "4", "5", "6", "7", "8", "9">>

\* str(n) of a natural number, as an f-string field formats it.
RECURSIVE IntStr(_)
IntStr(n) ==
  IF n < 10 THEN <<Digits[n + 1]>>
  ELSE IntStr(n \div 10) \o <<Digits[(n % 10) + 1]>>

\* The texts are the source's literals in English; {..} are its f-string fields.
RateLimitWarning(n, e) ==
  Msg("warning", "rate limit hit (attempt {attempt + 1}): {str(e)}",
      <<IntStr(n + 1), e.msg>>)
WaitInfo(secs) == Msg("info", "waiting {retry_delay} seconds before retrying", <<IntStr(secs)>>)
MaxRetriesError == Msg("error", "max retries reached, cannot complete the request", <<>>)
InsufficientError == Msg("error", "error: insufficient resources", <<>>)
InsufficientHint == Msg("info", "hint: top up resources and retry", <<>>)
OtherErrorMsgNoText(error_msg) == Msg("error", "other error", <<>>)
OtherErrorMsg(error_msg) == Msg("error", "other error: {error_msg}", <<error_msg>>)
AnalysisError(e) == Msg("error", "error during analysis: {e}", <<e.msg>>)
LoadError == Msg("error", "file load failed: {e}", <<>>)
InitError == Msg("error", "model initialization failed: {e}", <<>>)
LoadSuccess == Msg("success", "file loaded", <<>>)
UploadedInfo(name) == Msg("info", "uploaded file: {uploaded_file.name}", <<name>>)
PleaseUpload == Msg("info", "please upload a .docx tender file", <<>>)
AnalysisDone == Msg("success", "analysis done, took {elapsed_time:.2f} s", <<>>)
ResultHeader == Msg("markdown", "## analysis result", <<>>)
ResultBody(summary) == Msg("markdown", "{summary}", <<summary>>)

\* ------------------------------------------------------------------ inputs

\* The text area's default value (line 200): seven keywords, one per line.
\* Each Chinese character is one character of the model, named in pinyin.
DefaultKeywordsInput ==
  <<"zhao", "biao", NL, "tou", "biao", NL, "xiang", "mu", NL, "zi", "ge", NL,
    "tou", "biao", "wen", "jian", NL, "jie", "zhi", "shi", "jian", NL,
    "ping", "biao">>

\* What the user may type into the text area.
KeywordInputs == SeqsUpTo(InputChars, MaxInputLen)

\* A tender notice: a title, an empty paragraph, a deadline line.
ScenarioDoc ==
  << <<"zhao", "biao", "gong", "gao">>,
     <<>>,
     <<"jie", "zhi", "shi", "jian", ":", "2", "0", "2", "5", "-", "0", "5",
       "-", "2", "8">> >>
ScenarioKeywords == << <<"jie", "zhi", "shi", "jian">> >>

\* A document whose paragraphs differ in case and hold a line break.
MixedDoc == << <<"A", "a">>, <<>>, <<"a", NL, "A">> >>

\* The uploader's value: nothing, or a file that python-docx can or cannot load.
NoFile == [present |-> FALSE, name |-> <<>>, valid |-> FALSE, paragraphs |-> <<>>]
File(name, valid, paragraphs) ==
  [present |-> TRUE, name |-> name, valid |-> valid, paragraphs |-> paragraphs]
Files ==
  {File(<<"broken.docx">>, FALSE, <<>>),
   File(<<"empty.docx">>, TRUE, <<>>),
   File(<<"notice.docx">>, TRUE, ScenarioDoc),
   File(<<"mixed.docx">>, TRUE, MixedDoc)}

\* Documents and keyword arguments of a direct call of extract_docx_content.
\* The keywords are such as line 201 produces them: non-empty, stripped, with
\* no line break inside.
Paras == SeqsUpTo(ParaChars, MaxParaLen)
Docs == SeqsUpTo(Paras, MaxParas) \cup {ScenarioDoc}
KeywordArgs ==
  {None, Some(<<>>), Some(ScenarioKeywords),
   Some(<< <<"a">> >>), Some(<< <<"A">> >>), Some(<< <<"a", "A">> >>),
   Some(<< <<"a", "a">>, <<"A">> >>)}

\* ------------------------------------------------------------------- state

VARIABLES
  pc,                  \* where the script (or the extraction harness) is
  use_keyword_filter,  \* sidebar checkbox
  keywords_input,      \* sidebar text area
  uploaded_file,       \* file uploader
  button,              \* st.button's value in this run: the run was caused by a click
  button_rendered,     \* the page shows the analysis button
  keywords_list,       \* main's keywords_list, docx_qa's keywords
  doc,                 \* the loaded Document: its paragraphs' texts
  document_content,    \* docx_qa's document_content
  attempt,             \* docx_qa's loop variable
  summary,             \* what docx_qa returned
  exc,                 \* the exception docx_qa raised
  ui,                  \* what the page shows, in order
  trace,               \* the remote calls and waits of this run, in order
  invocations          \* docx_qa calls so far

vars ==
  <<pc, use_keyword_filter, keywords_input, uploaded_file, button,
    button_rendered, keywords_list, doc, document_content, attempt, summary,
    exc, ui, trace, invocations>>

InvokeEvent(n, outcome, response, error, document) ==
  [ev |-> "invoke", attempt |-> n, outcome |-> outcome, response |-> response,
   error |-> error, document |-> document, secs |-> 0]
SleepEvent(n, secs) ==
  [ev |-> "sleep", attempt |-> n, outcome |-> "", response |-> NoResponse,
   error |-> NoError, document |-> <<>>, secs |-> secs]

\* The locals of a script run, before the script has set them.
FreshRun ==
  /\ keywords_list' = None
  /\ doc' = <<>>
  /\ document_content' = <<>>
  /\ attempt' = 0
  /\ summary' = NoResponse
  /\ exc' = NoError
  /\ ui' = <<>>
  /\ trace' = <<>>
  /\ button_rendered' = FALSE

Init ==
  /\ pc = "sidebar"
  /\ use_keyword_filter = FALSE
  /\ keywords_input = DefaultKeywordsInput
  /\ uploaded_file = NoFile
  /\ button = FALSE
  /\ button_rendered = FALSE
  /\ keywords_list = None
  /\ doc = <<>>
  /\ document_content = <<>>
  /\ attempt = 0
  /\ summary = NoResponse
  /\ exc = NoError
  /\ ui = <<>>
  /\ trace = <<>>
  /\ invocations = 0

\* ------------------------------------------------------------ main (script)

\* Lines 194-203: the sidebar.
Sidebar ==
  /\ pc = "sidebar"
  /\ keywords_list' = IF use_keyword_filter
                      THEN Some(parse_keywords(keywords_input))
                      ELSE None
  /\ pc' = "uploader"
  /\ UNCHANGED <<use_keyword_filter, keywords_input, uploaded_file, button,
                 button_rendered, doc, document_content, attempt, summary, exc,
                 ui, trace, invocations>>

\* Lines 206, 213, 249-250: no file is uploaded.
NoUpload ==
  /\ pc = "uploader"
  /\ ~uploaded_file.present
  /\ ui' = Append(ui, PleaseUpload)
  /\ pc' = "done"
  /\ UNCHANGED <<use_keyword_filter, keywords_input, uploaded_file, button,
                 button_rendered, keywords_list, doc, document_content, attempt,
                 summary, exc, trace, invocations>>

\* st.stop() after a failed load (line 223): where the script goes.
AfterLoadFailure == "stopped"

\* Lines 213-223: Document(uploaded_file).
LoadDocument ==
  /\ pc = "uploader"
  /\ uploaded_file.present
  /\ IF uploaded_file.valid
     THEN /\ doc' = uploaded_file.paragraphs
          /\ ui' = ui \o <<UploadedInfo(uploaded_file.name), LoadSuccess>>
          /\ pc' = "init"
     ELSE /\ doc' = doc
          /\ ui' = ui \o <<UploadedInfo(uploaded_file.name), LoadError>>
          /\ pc' = AfterLoadFailure
  /\ UNCHANGED <<use_keyword_filter, keywords_input, uploaded_file, button,
                 button_rendered, keywords_list, document_content, attempt,
                 summary, exc, trace, invocations>>

\* Lines 226-227: initialize_deepseek_chain returns the chain.
InitChainOk ==
  /\ pc = "init"
  /\ pc' = "button"
  /\ UNCHANGED <<use_keyword_filter, keywords_input, uploaded_file, button,
                 button_rendered, keywords_list, doc, document_content, attempt,
                 summary, exc, ui, trace, invocations>>

\* The script without st.stop(): it goes on to the button.
AfterInitFailureNoStop == "button"

\* st.stop() after a failed initialization (line 231).
AfterInitFailure == "stopped"

\* Lines 229-231: initialize_deepseek_chain raises.
InitChainFail ==
  /\ pc = "init"
  /\ ui' = Append(ui, InitError)
  /\ pc' = AfterInitFailure
  /\ UNCHANGED <<use_keyword_filter, keywords_input, uploaded_file, button,
                 button_rendered, keywords_list, doc, document_content, attempt,
                 summary, exc, trace, invocations>>

\* Line 234: st.button draws the button and is False; the script ends.
ButtonIdle ==
  /\ pc = "button"
  /\ ~button
  /\ button_rendered' = TRUE
  /\ pc' = "done"
  /\ UNCHANGED <<use_keyword_filter, keywords_input, uploaded_file, button,
                 keywords_list, doc, document_content, attempt, summary, exc,
                 ui, trace, invocations>>

\* Lines 234-239, 155, 161: st.button is True; docx_qa is called, extracts the
\* content and enters its loop.
DocxQaCall ==
  /\ pc = "button"
  /\ button
  /\ button_rendered' = TRUE
  /\ invocations' = invocations + 1
  /\ document_content' = extract_docx_content(doc, keywords_list)
  /\ attempt' = 0
  /\ pc' = "qa_invoke"
  /\ UNCHANGED <<use_keyword_filter, keywords_input, uploaded_file, button,
                 keywords_list, doc, summary, exc, ui, trace>>

\* ----------------------------------------------------------------- docx_qa

\* Lines 162-166: the chain answers; docx_qa returns the response.
InvokeOk(r) ==
  /\ pc = "qa_invoke"
  /\ trace' = Append(trace, InvokeEvent(attempt, "ok", r, NoError, document_content))
  /\ summary' = r
  /\ pc' = "main_render"
  /\ UNCHANGED <<use_keyword_filter, keywords_input, uploaded_file, button,
                 button_rendered, keywords_list, doc, document_content, attempt,
                 exc, ui, invocations>>

\* Lines 167-174: the chain raises RateLimitError.
InvokeRateLimit(e) ==
  /\ pc = "qa_invoke"
  /\ trace' = Append(trace, InvokeEvent(attempt, "RateLimitError", NoResponse, e,
                                        document_content))
  /\ IF ShouldWait(attempt)
     THEN /\ ui' = ui \o <<RateLimitWarning(attempt, e), WaitInfo(retry_delay)>>
          /\ exc' = exc
          /\ pc' = "qa_sleep"
     ELSE /\ ui' = ui \o <<RateLimitWarning(attempt, e), MaxRetriesError>>
          /\ exc' = e
          /\ pc' = "main_except"
  /\ UNCHANGED <<use_keyword_filter, keywords_input, uploaded_file, button,
                 button_rendered, keywords_list, doc, document_content, attempt,
                 summary, invocations>>

\* Lines 171, 161: time.sleep(retry_delay), then the loop's next iteration; a
\* loop that runs out ends the function, which then returns None.
Sleep ==
  /\ pc = "qa_sleep"
  /\ trace' = Append(trace, SleepEvent(attempt, RetryDelay(attempt)))
  /\ IF HasNextAttempt(attempt)
     THEN /\ attempt' = attempt + 1
          /\ summary' = summary
          /\ pc' = "qa_invoke"
     ELSE /\ attempt' = attempt
          /\ summary' = NoResponse
          /\ pc' = "main_render"
  /\ UNCHANGED <<use_keyword_filter, keywords_input, uploaded_file, button,
                 button_rendered, keywords_list, doc, document_content, exc, ui,
                 invocations>>

\* Lines 175-183: the chain raises any other Exception.
InvokeOtherError(e) ==
  /\ pc = "qa_invoke"
  /\ trace' = Append(trace, InvokeEvent(attempt, "Exception", NoResponse, e,
                                        document_content))
  /\ ui' = IF IsPaymentError(e.msg)
           THEN ui \o <<InsufficientError, InsufficientHint>>
           ELSE ui \o <<OtherErrorMsg(e.msg)>>
  /\ exc' = e
  /\ pc' = "main_except"
  /\ UNCHANGED <<use_keyword_filter, keywords_input, uploaded_file, button,
                 button_rendered, keywords_list, doc, document_content, attempt,
                 summary, invocations>>

\* Lines 240-245: docx_qa returned; the result is shown.
RenderResult ==
  /\ pc = "main_render"
  /\ ui' = ui \o <<AnalysisDone, ResultHeader, ResultBody(summary)>>
  /\ pc' = "done"
  /\ UNCHANGED <<use_keyword_filter, keywords_input, uploaded_file, button,
                 button_rendered, keywords_list, doc, document_content, attempt,
                 summary, exc, trace, invocations>>

\* Lines 247-248: docx_qa raised; the error is shown.
RenderError ==
  /\ pc = "main_except"
  /\ ui' = Append(ui, AnalysisError(exc))
  /\ pc' = "done"
  /\ UNCHANGED <<use_keyword_filter, keywords_input, uploaded_file, button,
                 button_rendered, keywords_list, doc, document_content, attempt,
                 summary, exc, trace, invocations>>

\* ------------------------------------------------- the user (Streamlit reruns)

\* The script has ended; the page waits for the user. Every interaction runs
\* the script again from the top, with fresh locals and an empty page.
Idle == pc \in {"done", "stopped"}

\* Line 196: the checkbox is toggled. The text area exists only while the
\* checkbox is set, and starts from its default value.
ToggleFilter ==
  /\ Idle
  /\ use_keyword_filter' = ~use_keyword_filter
  /\ keywords_input' = DefaultKeywordsInput
  /\ button' = FALSE
  /\ FreshRun
  /\ pc' = "sidebar"
  /\ UNCHANGED <<uploaded_file, invocations>>

\* Line 199: the text area is edited.
EditKeywords(t) ==
  /\ Idle
  /\ use_keyword_filter
  /\ t /= keywords_input
  /\ keywords_input' = t
  /\ button' = FALSE
  /\ FreshRun
  /\ pc' = "sidebar"
  /\ UNCHANGED <<use_keyword_filter, uploaded_file, invocations>>

\* Line 206: a file is uploaded, replaced or removed.
ChooseFile(f) ==
  /\ Idle
  /\ f /= uploaded_file
  /\ uploaded_file' = f
  /\ button' = FALSE
  /\ FreshRun
  /\ pc' = "sidebar"
  /\ UNCHANGED <<use_keyword_filter, keywords_input, invocations>>

\* Line 234: the analysis button, which the page shows, is clicked.
ClickButton ==
  /\ Idle
  /\ button_rendered
  /\ invocations < MaxInvocations
  /\ button' = TRUE
  /\ FreshRun
  /\ pc' = "sidebar"
  /\ UNCHANGED <<use_keyword_filter, keywords_input, uploaded_file, invocations>>

Next ==
  \/ Sidebar
  \/ NoUpload
  \/ LoadDocument
  \/ InitChainOk
  \/ InitChainFail
  \/ ButtonIdle
  \/ DocxQaCall
  \/ \E r \in Responses : InvokeOk(r)
  \/ \E e \in RateLimitErrors : InvokeRateLimit(e)
  \/ Sleep
  \/ \E e \in OtherErrors : InvokeOtherError(e)
  \/ RenderResult
  \/ RenderError
  \/ ToggleFilter
  \/ \E t \in KeywordInputs : EditKeywords(t)
  \/ \E f \in Files \cup {NoFile} : ChooseFile(f)
  \/ ClickButton

Spec == Init /\ [][Next]_vars

\* ------------------------------------- extract_docx_content, called directly

InitExtract ==
  /\ pc = "extract_call"
  /\ doc \in Docs
  /\ keywords_list \in KeywordArgs
  /\ use_keyword_filter = FALSE
  /\ keywords_input = <<>>
  /\ uploaded_file = NoFile
  /\ button = FALSE
  /\ button_rendered = FALSE
  /\ document_content = <<>>
  /\ attempt = 0
  /\ summary = NoResponse
  /\ exc = NoError
  /\ ui = <<>>
  /\ trace = <<>>
  /\ invocations = 0

\* Lines 11-32: one call of extract_docx_content(doc, keywords).
ExtractCall ==
  /\ pc = "extract_call"
  /\ document_content' = extract_docx_content(doc, keywords_list)
  /\ pc' = "extract_done"
  /\ UNCHANGED <<use_keyword_filter, keywords_input, uploaded_file, button,
                 button_rendered, keywords_list, doc, attempt, summary, exc, ui,
                 trace, invocations>>

NextExtract == ExtractCall

SpecExtract == InitExtract /\ [][NextExtract]_vars

\* ---------------------------------------------- vocabulary of the properties

Range(seq) == {seq[i] : i \in 1..Len(seq)}

\* kw occurs in text as a case-insensitive substring.
ContainsCI(text, kw) ==
  \E off \in 0..Len(text) :
     /\ off + Len(kw) <= Len(text)
     /\ \A i \in 1..Len(kw) : LowerChar(text[off + i]) = LowerChar(kw[i])

\* text contains at least one member of K.
HasMember(text, K) == \E k \in 1..Len(K) : ContainsCI(text, K[k])

\* The paragraphs of D that contain a member of K, in D's order.
KeptParas(D, K) ==
  LET M == {i \in 1..Len(D) : HasMember(D[i], K)}
  IN  [j \in 1..Cardinality(M) |->
         D[CHOOSE i \in M : Cardinality({m \in M : m < i}) = j - 1]]

\* Where part i starts in the newline-join of parts (characters before it).
RECURSIVE Offset(_, _)
Offset(parts, i) ==
  IF i = 1 THEN 0 ELSE Offset(parts, i - 1) + Len(parts[i - 1]) + 1

\* text is parts in order, one line break between neighbours, nothing else.
IsJoinOf(text, parts) ==
  IF parts = <<>> THEN text = <<>>
  ELSE /\ Len(text) = Offset(parts, Len(parts)) + Len(parts[Len(parts)])
       /\ \A i \in 1..Len(parts) :
            /\ Offset(parts, i) + Len(parts[i]) <= Len(text)
            /\ SubSeq(text, Offset(parts, i) + 1, Offset(parts, i) + Len(parts[i]))
                 = parts[i]
            /\ i < Len(parts) => text[Offset(parts, i) + Len(parts[i]) + 1] = NL

\* The lines of text, as str.splitlines() gives them: "" has no line, and a
\* final line break ends the last line without starting another.
RECURSIVE Lines(_)
Lines(text) ==
  IF text = <<>> THEN <<>>
  ELSE IF \E i \in 1..Len(text) : text[i] = NL
  THEN LET p == CHOOSE i \in 1..Len(text) :
                  text[i] = NL /\ \A j \in 1..(i - 1) : text[j] /= NL
       IN  <<SubSeq(text, 1, p - 1)>> \o Lines(SubSeq(text, p + 1, Len(text)))
  ELSE <<text>>

HasBreak(text) == \E i \in 1..Len(text) : text[i] = NL

CountBreaks(text) == Cardinality({i \in 1..Len(text) : text[i] = NL})

RECURSIVE SumBreaks(_)
SumBreaks(parts) ==
  IF parts = <<>> THEN 0 ELSE CountBreaks(Head(parts)) + SumBreaks(Tail(parts))

Extracted == pc = "extract_done"

\* ------------------------------------------------------------------ C4

\* C4, part (2) and the example, shared by the claim and its amendment: the
\* output is made of exactly the paragraphs of D that contain a member of K, in
\* D's order, and the tender notice filtered by its deadline keyword is exactly
\* its deadline paragraph.
C4_KeepsMatchingInOrder ==
  (Extracted /\ Truthy(keywords_list)) =>
    /\ IsJoinOf(document_content, KeptParas(doc, keywords_list.items))
    /\ (doc = ScenarioDoc /\ keywords_list = Some(ScenarioKeywords))
         => document_content = ScenarioDoc[3]

\* C4 as claimed: for a non-empty keyword set K, every line of the output of
\* extract_docx_content(D, K) contains a member of K as a case-insensitive
\* substring, and every paragraph of D containing a member of K is in the
\* output, in D's order.
C4_EveryLineHasKeyword ==
  (Extracted /\ Truthy(keywords_list)) =>
    /\ \A l \in 1..Len(Lines(document_content)) :
         HasMember(Lines(document_content)[l], keywords_list.items)
    /\ C4_KeepsMatchingInOrder

\* C4 amended: for a non-empty keyword set K, the output is the newline-join of
\* exactly the paragraphs of D that contain a member of K (case-insensitive
\* substring), in D's order; every line of the output contains a member of K
\* whenever no such paragraph has a line break inside it.
C4_EveryParagraphHasKeyword ==
  (Extracted /\ Truthy(keywords_list)) =>
    LET kept == KeptParas(doc, keywords_list.items)
    IN  /\ C4_KeepsMatchingInOrder
        /\ (\A j \in 1..Len(kept) : ~HasBreak(kept[j])) =>
             /\ Lines(document_content) = kept
             /\ \A l \in 1..Len(Lines(document_content)) :
                  HasMember(Lines(document_content)[l], keywords_list.items)

\* A paragraph without a keyword is dropped, and one that matches only when
\* case is ignored is kept.
C4_Witness ==
  /\ Extracted
  /\ Truthy(keywords_list)
  /\ Len(doc) = 2
  /\ ~HasMember(doc[1], keywords_list.items)
  /\ HasMember(doc[2], keywords_list.items)
  /\ \A k \in 1..Len(keywords_list.items) : ~StrIn(keywords_list.items[k], doc[2])
  /\ document_content = doc[2]

\* ------------------------------------------------------------------ C5

\* C5: without a keyword filter the output of extract_docx_content(D) is D's
\* paragraph texts in order, every one of them (the empty ones too), with one
\* line break between neighbours; the empty document gives the empty string.
C5_JoinsAllParagraphs ==
  (Extracted /\ keywords_list.none) =>
    /\ IsJoinOf(document_content, doc)
    /\ doc = <<>> => document_content = <<>>
    /\ doc /= <<>> =>
         CountBreaks(document_content) = (Len(doc) - 1) + SumBreaks(doc)

\* An empty paragraph before a non-empty one is kept as an empty first line.
C5_Witness ==
  /\ Extracted
  /\ keywords_list.none
  /\ Len(doc) = 2
  /\ doc[1] = <<>>
  /\ doc[2] /= <<>>
  /\ document_content = <<NL>> \o doc[2]

\* ------------------------------------------------------------------ C10

\* Every line the user entered is blank: the text holds white space only.
AllBlank(text) == \A i \in 1..Len(text) : text[i] \in {" ", NL}

\* docx_qa has been called in this run.
QaCalled == pc \in {"qa_invoke", "qa_sleep", "main_render", "main_except"}
              \/ (pc = "done" /\ trace /= <<>>)

\* C10: with keyword filtering enabled and every entered line blank,
\* keywords_list is [] and extract_docx_content treats it as no filter: the text
\* docx_qa sends to the remote service is all paragraphs of the document joined
\* by line breaks, not an empty text.
C10_EmptyListIsNoFilter ==
  (use_keyword_filter /\ AllBlank(keywords_input) /\ pc /= "sidebar") =>
    /\ keywords_list = Some(<<>>)
    /\ QaCalled =>
         /\ IsJoinOf(document_content, doc)
         /\ \A i \in 1..Len(trace) :
              trace[i].ev = "invoke" => trace[i].document = document_content

\* A non-empty document was sent whole although the filter was enabled with a
\* non-empty, all-blank text.
C10_Witness ==
  /\ use_keyword_filter
  /\ AllBlank(keywords_input)
  /\ keywords_input /= <<>>
  /\ doc = MixedDoc
  /\ trace /= <<>>
  /\ trace[1].ev = "invoke"
  /\ trace[1].document = join(MixedDoc)
  /\ pc = "done"

\* ------------------------------------------------ vocabulary of docx_qa runs

IsInvoke(ev) == ev.ev = "invoke"
IsSleep(ev) == ev.ev = "sleep"
Invokes == SelectSeq(trace, IsInvoke)
Sleeps == SelectSeq(trace, IsSleep)

IsRateLimitFailure(ev) == IsInvoke(ev) /\ ev.outcome = "RateLimitError"
IsSuccess(ev) == IsInvoke(ev) /\ ev.outcome = "ok"

\* A failure that is not rate-limit-class and whose text holds a payment marker.
IsPaymentFailure(ev) ==
  /\ IsInvoke(ev)
  /\ ev.outcome = "Exception"
  /\ (StrIn(TextInsufficient, ev.error.msg) \/ StrIn(Text402, ev.error.msg))

\* A failure that is neither rate-limit-class nor payment-required-class.
IsOtherFailure(ev) ==
  /\ IsInvoke(ev)
  /\ ev.outcome = "Exception"
  /\ ~IsPaymentFailure(ev)

\* docx_qa returned to main / raised into main, in this run.
QaReturned == pc = "main_render" \/ (pc = "done" /\ trace /= <<>> /\ exc = NoError)
QaRaised == pc = "main_except" \/ (pc = "done" /\ exc /= NoError)
QaEnded == QaReturned \/ QaRaised

\* The page shows a result / main's error report / docx_qa's messages.
ResultShown == \E m \in Range(ui) : m.kind = "markdown" /\ m.text = "{summary}"
AnalysisErrorShown == \E m \in Range(ui) : m.text = "error during analysis: {e}"
InsufficientShown ==
  \E m \in Range(ui) : m.kind = "error" /\ m.text = "error: insufficient resources"
GenericShown == \E m \in Range(ui) : m.text \in {"other error: {error_msg}", "other error"}
GenericShownWith(error_msg) ==
  \E m \in Range(ui) :
     /\ m.kind = "error"
     /\ m.text = "other error: {error_msg}"
     /\ m.args = <<error_msg>>

\* ------------------------------------------------------------------ C1

\* C1: when attempts 1 and 2 of docx_qa fail with a rate-limit error and
\* attempt 3 succeeds, docx_qa returns exactly the attempt-3 response after
\* exactly three attempts and exactly two waits of 60 seconds, one after each
\* failed attempt and none after the success.
C1_ThirdAttemptSucceeds ==
  (/\ Len(Invokes) >= 3
   /\ IsRateLimitFailure(Invokes[1])
   /\ IsRateLimitFailure(Invokes[2])
   /\ IsSuccess(Invokes[3])) =>
    /\ QaReturned
    /\ summary = Invokes[3].response
    /\ summary \in Responses
    /\ Len(Invokes) = 3
    /\ Len(Sleeps) = 2
    /\ \A i \in 1..2 : Sleeps[i].secs = 60
    /\ Len(trace) = 5
    /\ IsInvoke(trace[1]) /\ IsSleep(trace[2]) /\ IsInvoke(trace[3])
    /\ IsSleep(trace[4]) /\ IsInvoke(trace[5])

\* Two rate-limit failures, then a success, and the result is on the page.
C1_Witness ==
  /\ Len(Invokes) = 3
  /\ IsRateLimitFailure(Invokes[1])
  /\ IsRateLimitFailure(Invokes[2])
  /\ IsSuccess(Invokes[3])
  /\ pc = "done"
  /\ ResultShown

\* ------------------------------------------------------------------ C2

\* C2: when all 3 attempts of docx_qa fail with a rate-limit error, docx_qa
\* ends by raising the third failure: no value is returned, there is no fourth
\* attempt and no wait after the third failure. A rate-limit failure is raised
\* only by the third attempt.
C2_ThreeRateLimitFailures ==
  /\ (/\ Len(Invokes) >= 3
      /\ \A i \in 1..3 : IsRateLimitFailure(Invokes[i])) =>
       /\ QaRaised
       /\ exc = Invokes[3].error
       /\ summary = NoResponse
       /\ ~ResultShown
       /\ Len(Invokes) = 3
       /\ Len(Sleeps) = 2
       /\ trace[Len(trace)] = Invokes[3]
  /\ (QaRaised /\ exc.cls = "RateLimitError") =>
       /\ Len(Invokes) = 3
       /\ \A i \in 1..3 : IsRateLimitFailure(Invokes[i])

\* Three rate-limit failures, and main has reported the error.
C2_Witness ==
  /\ Len(Invokes) = 3
  /\ \A i \in 1..3 : IsRateLimitFailure(Invokes[i])
  /\ pc = "done"
  /\ AnalysisErrorShown

\* ------------------------------------------------------------------ C3

\* C3: an attempt of docx_qa that fails with a payment-required-class error (not
\* a rate-limit error; its text contains "Insufficient Balance" or "402") ends
\* the call at once with that failure raised: no wait and no attempt follow it,
\* a first-attempt failure makes exactly one attempt, and docx_qa shows the
\* insufficient-resources message and not its generic one.
C3_PaymentFailureIsTerminal ==
  \A i \in 1..Len(trace) :
    IsPaymentFailure(trace[i]) =>
      /\ i = Len(trace)
      /\ QaRaised
      /\ exc = trace[i].error
      /\ summary = NoResponse
      /\ ~ResultShown
      /\ InsufficientShown
      /\ ~GenericShown
      /\ trace[i].attempt = 0 => (Len(trace) = 1 /\ Len(Invokes) = 1 /\ Len(Sleeps) = 0)

\* The first attempt fails with "Insufficient Balance", and main has reported it.
C3_Witness ==
  /\ Len(trace) = 1
  /\ IsPaymentFailure(trace[1])
  /\ trace[1].error.msg = TextInsufficient
  /\ pc = "done"
  /\ InsufficientShown

\* ------------------------------------------------------------------ C6

\* The uploaded file could not be loaded in this run.
LoadFailed ==
  uploaded_file.present /\ ~uploaded_file.valid /\ pc \notin {"sidebar", "uploader"}

LoadErrorShown == \E m \in Range(ui) : m.text = "file load failed: {e}"
InitErrorShown == \E m \in Range(ui) : m.text = "model initialization failed: {e}"

\* C6: when loading the uploaded file fails or building the chain fails, the
\* failure is reported and the script stops: docx_qa is not called and no
\* remote request is made in that run, also in a run a button click started.
C6_FailureHaltsBeforeRequest ==
  /\ LoadFailed => LoadErrorShown
  /\ (LoadFailed \/ LoadErrorShown \/ InitErrorShown) =>
       /\ pc = "stopped"
       /\ trace = <<>>
       /\ ~QaCalled
       /\ ~ResultShown
  /\ pc = "stopped" => (LoadErrorShown \/ InitErrorShown)

\* A run started by a click on the button stops at the failed initialization.
C6_Witness ==
  /\ button
  /\ InitErrorShown
  /\ pc = "stopped"
  /\ trace = <<>>

\* ------------------------------------------------------------------ C7

\* C7: an analysis run shows exactly one of a result and an error. A result is
\* shown only after a successful attempt, and is that attempt's response; an
\* error is shown whenever docx_qa raised; no result is shown in a run whose
\* request failed; docx_qa returns only the response of a successful attempt.
C7_ResultOrError ==
  /\ (pc = "done" /\ trace /= <<>>) => (ResultShown /= AnalysisErrorShown)
  /\ ResultShown =>
       /\ IsSuccess(trace[Len(trace)])
       /\ ResultBody(trace[Len(trace)].response) \in Range(ui)
       /\ \A m \in Range(ui) : m.text = "{summary}" => m = ResultBody(trace[Len(trace)].response)
       /\ exc = NoError
       /\ ~AnalysisErrorShown
  /\ (pc = "done" /\ exc /= NoError) => (AnalysisErrorShown /\ ~ResultShown)
  /\ AnalysisErrorShown => (trace /= <<>> /\ ~IsSuccess(trace[Len(trace)]))
  /\ QaReturned =>
       /\ trace /= <<>>
       /\ IsSuccess(trace[Len(trace)])
       /\ summary = trace[Len(trace)].response
       /\ summary \in Responses
  /\ QaRaised => summary = NoResponse

\* A response that came after a rate-limit failure is on the page.
C7_Witness ==
  /\ pc = "done"
  /\ Len(trace) = 3
  /\ IsSuccess(trace[3])
  /\ ResultBody(trace[3].response) \in Range(ui)

\* ------------------------------------------------------------------ C8

\* C8: a failure of docx_qa that is neither rate-limit-class nor
\* payment-required-class, on any attempt, is never retried: the call ends at
\* that attempt with the failure raised, docx_qa shows its generic message with
\* the error's text, and no wait follows.
C8_OtherFailureIsTerminal ==
  \A i \in 1..Len(trace) :
    IsOtherFailure(trace[i]) =>
      /\ i = Len(trace)
      /\ QaRaised
      /\ exc = trace[i].error
      /\ summary = NoResponse
      /\ ~ResultShown
      /\ GenericShownWith(trace[i].error.msg)
      /\ ~InsufficientShown

\* The third attempt, after two rate-limit failures, fails with another error.
C8_Witness ==
  /\ Len(trace) = 5
  /\ IsRateLimitFailure(trace[1])
  /\ IsRateLimitFailure(trace[3])
  /\ IsOtherFailure(trace[5])
  /\ pc = "done"

\* ------------------------------------------------------------------ C9

\* C9: whatever the attempts' outcomes, one docx_qa invocation makes between 1
\* and 3 attempts, numbered from zero in every invocation; attempts and waits
\* alternate, every wait is 60 seconds and comes directly after a rate-limit
\* failure of attempt 1 or 2, so waits = attempts - 1 <= 2 when the call has
\* ended; nothing follows a success or a raised failure.
C9_AttemptsAndWaits ==
  /\ Len(Invokes) <= 3
  /\ Len(Sleeps) <= 2
  /\ QaEnded => (Len(Invokes) >= 1 /\ Len(Sleeps) = Len(Invokes) - 1)
  /\ (pc = "qa_invoke") => (attempt = Len(Invokes) /\ Len(Sleeps) = Len(Invokes))
  /\ \A i \in 1..Len(trace) :
       /\ (i % 2 = 1) => (IsInvoke(trace[i]) /\ trace[i].attempt = (i - 1) \div 2)
       /\ (i % 2 = 0) =>
            /\ IsSleep(trace[i])
            /\ trace[i].secs = 60
            /\ IsRateLimitFailure(trace[i - 1])
            /\ trace[i - 1].attempt \in {0, 1}
       /\ (IsInvoke(trace[i]) /\ (~IsRateLimitFailure(trace[i]) \/ trace[i].attempt = 2))
            => (i = Len(trace) /\ QaEnded)
  /\ (QaEnded /\ pc /= "done") => trace[Len(trace)].ev = "invoke"

\* A second invocation of the session makes all three attempts.
C9_Witness ==
  /\ invocations = 2
  /\ pc = "done"
  /\ Len(Invokes) = 3
  /\ Len(Sleeps) = 2
  /\ trace[1].attempt = 0

====
